---- MODULE Spec2Model ----
(***************************************************************************)
(* A model of quibble: the component / problem registry                    *)
(* (utils/components.py, utils/problem.py), the trial loop of the solver   *)
(* (utils/solver.py, nlp.py) and the result views (utils/result.py).       *)
(*                                                                         *)
(* Numbers.  Python floats are modelled by integers on a grid whose step   *)
(* is half the activation tolerance of solver.py:73, so that a distance    *)
(* can be below, equal to and above the tolerance.  math.inf is the        *)
(* integer Inf, larger than every finite value of the model; arithmetic    *)
(* on it goes through AbsDiff, which keeps it infinite.                    *)
(*                                                                         *)
(* Optional values.  Python's None is the empty tuple for a value that is  *)
(* otherwise a number, a list or an object (Some(v) wraps the value), and  *)
(* the string Null for an optional string (name, group, solver name).      *)
(***************************************************************************)
EXTENDS Integers, Sequences, FiniteSets, TLC

----------------------------------------------------------------------------
(* Bounds of the model *)

\* registered components of a Problem, all categories together
MaxComponents == 2
\* the largest trials argument of a solve call
MaxTrials == 3
\* solve calls in one behaviour
MaxSolves == 2

----------------------------------------------------------------------------
(* Values *)

None == <<>>
Some(v) == <<v>>
Null == "None"

\* math.inf
Inf == 1000000000
NegInf == -Inf

\* replace_inf's default replace_value, 10 ** 10: beyond TLC's integers, so
\* a value far above every other finite value of the model stands for it
ReplaceValue == 1000000

\* activation_epsilon = 10 ** -5, in grid steps
ActivationEpsilon == 2

Abs(a) == IF a < 0 THEN -a ELSE a

\* abs(bound - value) of floats, value finite: an infinite bound is
\* infinitely far away
AbsDiff(bound, value) ==
    IF bound = Inf \/ bound = NegInf THEN Inf ELSE Abs(bound - value)

\* functions.replace_inf
replace_inf(value) ==
    IF value = Inf THEN ReplaceValue
    ELSE IF value = NegInf THEN -1 * ReplaceValue
    ELSE value

\* a Python list comprehension / map over a list
Map(s, Op(_)) == [i \in 1..Len(s) |-> Op(s[i])]

RECURSIVE SumSeq(_)
SumSeq(s) == IF s = <<>> THEN 0 ELSE Head(s) + SumSeq(Tail(s))

----------------------------------------------------------------------------
(* Symbolic expressions.  A decision variable's symbol is its position in *)
(* the registry; an expression is a linear form over the symbols, the     *)
(* sequence of its coefficients (symbols beyond its length have 0).       *)

Coef(e, i) == IF i <= Len(e) THEN e[i] ELSE 0

\* the symbol of variable i as an expression
Sym(i) == [j \in 1..i |-> IF j = i THEN 1 ELSE 0]

\* the sum of the first n symbols
SumOfSyms(n) == [j \in 1..n |-> 1]

\* sum([_.variable for _ in objectives]) over n symbols
SumExprs(es, n) == [j \in 1..n |-> SumSeq(Map(es, LAMBDA e : Coef(e, j)))]

\* cd.Function(name, symbols, [expr]).call(values)[0]
Eval(e, values) ==
    SumSeq([j \in 1..Len(values) |-> Coef(e, j) * values[j]])

----------------------------------------------------------------------------
VARIABLES
    \* OptimizationProblem
    decision_variables, constraints, objectives, result, verbose,
    solved, solver_name, solver_options,
    \* the Solver of the running solve call and the locals of _ipopt_start
    pc, solver, trials, trial, initial_guess, engine_result,
    successful_trials, failed_trials,
    \* the engine's side of the running call: every invocation's arguments
    \* and return, in order
    engine_log,
    \* the caller's side: the running or last call with its arguments, what
    \* it raised and what it returned
    call, raised, returned,
    \* objects created so far: OptimizationResult instances, Solver.start calls
    results_created, solves

problemVars == <<decision_variables, constraints, objectives, result, verbose,
                 solved, solver_name, solver_options>>
solverVars == <<pc, solver, trials, trial, initial_guess, engine_result,
                successful_trials, failed_trials, engine_log>>
callerVars == <<call, raised, returned, results_created, solves>>
vars == <<problemVars, solverVars, callerVars>>

----------------------------------------------------------------------------
(* utils/components.py *)

\* a slip: the two bounds are stored in each other's place
OptimizationComponent_BoundsSwapped(variable, lower_bound, upper_bound, name, group) ==
    [variable |-> variable, lower_bound |-> upper_bound,
     upper_bound |-> lower_bound, name |-> name, group |-> group]

\* OptimizationComponent.__init__: stores its arguments, checks nothing
OptimizationComponent(variable, lower_bound, upper_bound, name, group) ==
    [variable |-> variable, lower_bound |-> lower_bound,
     upper_bound |-> upper_bound, name |-> name, group |-> group]

DecisionVariable(variable, lower_bound, upper_bound, name, group) ==
    OptimizationComponent(variable, lower_bound, upper_bound, name, group)
        @@ [is_discrete |-> FALSE]

Constraint(equation, lower_bound, upper_bound, name, group) ==
    OptimizationComponent(equation, lower_bound, upper_bound, name, group)

\* the bounds are the defaults of OptimizationComponent.__init__
Objective(equation, name, group) ==
    OptimizationComponent(equation, NegInf, Inf, name, group)

ResultComponent(name, group) ==
    [name |-> name, group |-> group, optimal_value |-> None,
     lower_bound_active |-> FALSE, upper_bound_active |-> FALSE]

\* a slip: name and group are passed in each other's place
to_result_component_NameAndGroupSwapped(c) == ResultComponent(c.group, c.name)

to_result_component(c) == ResultComponent(c.name, c.group)

----------------------------------------------------------------------------
(* utils/problem.py *)

\* option values are Python values of several types
\* bool is a subclass of int: True is 1, False is 0
PyBool(b) == [t |-> "bool", v |-> IF b THEN 1 ELSE 0]
PyStr(s) == [t |-> "str", v |-> s]
PyInt(n) == [t |-> "int", v |-> n]
PyFloat(x) == [t |-> "float", v |-> x]
PyNone == [t |-> "NoneType", v |-> 0]

EmptyDict == [k \in {} |-> None]

\* the mapping reset_solver_options assigns
ResetSolverOptions(delete_all, name, verb) ==
    IF delete_all THEN EmptyDict
    ELSE LET solver_output == IF verb THEN "no" ELSE "yes"
         IN IF name = "ipopt"
            THEN ("print_time" :> PyBool(verb))
                 @@ ("ipopt.suppress_all_output" :> PyStr(solver_output))
                 @@ ("ipopt.linear_solver" :> PyStr("mumps"))
                 @@ ("ipopt.print_level" :> PyInt(4))
            ELSE ("print_time" :> PyBool(verb))

\* a slip: equal bounds are refused too
BoundsOk_Strict(upper_bound, lower_bound) == upper_bound > lower_bound

\* _check_bounds returns normally
BoundsOk(upper_bound, lower_bound) == ~(upper_bound < lower_bound)

\* a slip: the vector is read off the decision variables
lower_bounds_constraints_OfVariables ==
    Map(decision_variables, LAMBDA c : c.lower_bound)

lower_bounds_constraints == Map(constraints, LAMBDA c : c.lower_bound)
upper_bounds_constraints == Map(constraints, LAMBDA c : c.upper_bound)
names_constraints == Map(constraints, LAMBDA c : c.name)
\* a slip: the vector carries the replacement of the infinite bounds
lower_bounds_decision_variables_Replaced ==
    Map(decision_variables, LAMBDA c : replace_inf(c.lower_bound))

lower_bounds_decision_variables ==
    Map(decision_variables, LAMBDA c : c.lower_bound)
upper_bounds_decision_variables ==
    Map(decision_variables, LAMBDA c : c.upper_bound)

\* a slip: the number counts the components of every category
DefaultConstraintName_OfAllComponents(cs) ==
    "Constraint_" \o ToString(Len(decision_variables) + Len(cs)
                                  + Len(objectives) + 1)

\* f"Constraint_{len(self._constraints) + 1}"
DefaultConstraintName(cs) == "Constraint_" \o ToString(Len(cs) + 1)
\* f"Objective_{len(self._objectives) + 1}"
DefaultObjectiveName(os) == "Objective_" \o ToString(Len(os) + 1)

NumComponents == Len(decision_variables) + Len(constraints) + Len(objectives)

\* OptimizationProblem.__init__ (through NonLinearProgramming.__init__), no
\* Solver yet, no call made yet
ProblemInit(name, verb) ==
    /\ decision_variables = <<>>
    /\ objectives = <<>>
    /\ constraints = <<>>
    /\ result = None
    /\ verbose = verb
    /\ solved = FALSE
    /\ solver_name = name
    /\ solver_options = ResetSolverOptions(FALSE, name, verb)

NoSolver ==
    /\ pc = "idle"
    /\ solver = None
    /\ trials = 0
    /\ trial = 0
    /\ initial_guess = None
    /\ engine_result = None
    /\ successful_trials = <<>>
    /\ failed_trials = <<>>
    /\ engine_log = <<>>

NoCall ==
    /\ call = [op |-> "__init__"]
    /\ raised = Null
    /\ returned = None
    /\ results_created = 0
    /\ solves = 0

\* a call that raises: nothing but the caller's view of it changes
Raise(c, error) ==
    /\ call' = c
    /\ raised' = error
    /\ returned' = None
    /\ UNCHANGED <<results_created, solves>>

\* a call that returns
Return(c, value) ==
    /\ call' = c
    /\ raised' = Null
    /\ returned' = value
    /\ UNCHANGED <<results_created, solves>>

\* a slip: a registered constraint invalidates the solved flag
add_constraint_ClearsSolved(equation, lower_bound, upper_bound, name, group) ==
    LET c == [op |-> "add_constraint", equation |-> equation,
              lower_bound |-> lower_bound, upper_bound |-> upper_bound,
              name |-> name, group |-> group]
        used == IF name = Null THEN "Constraint_" \o ToString(Len(constraints) + 1)
                ELSE name
    IN /\ pc = "idle"
       /\ IF upper_bound >= lower_bound
          THEN /\ Len(decision_variables) + Len(constraints)
                    + Len(objectives) < MaxComponents
               /\ constraints' = Append(constraints,
                      Constraint(equation, lower_bound, upper_bound, used, group))
               /\ solved' = FALSE
               /\ Return(c, None)
          ELSE /\ UNCHANGED <<constraints, solved>>
               /\ Raise(c, "ValueError")
       /\ UNCHANGED <<decision_variables, objectives, result, verbose,
                      solver_name, solver_options, solverVars>>

add_constraint(equation, lower_bound, upper_bound, name, group) ==
    LET c == [op |-> "add_constraint", equation |-> equation,
              lower_bound |-> lower_bound, upper_bound |-> upper_bound,
              name |-> name, group |-> group]
        used == IF name = Null THEN DefaultConstraintName(constraints)
                ELSE name
    IN /\ pc = "idle"
       /\ IF BoundsOk(upper_bound, lower_bound)
          THEN /\ NumComponents < MaxComponents
               /\ constraints' = Append(constraints,
                      Constraint(equation, lower_bound, upper_bound, used, group))
               /\ Return(c, None)
          ELSE /\ UNCHANGED constraints
               /\ Raise(c, "ValueError")
       /\ UNCHANGED <<decision_variables, objectives, result, verbose, solved,
                      solver_name, solver_options, solverVars>>

add_objective(objective, name, group) ==
    LET c == [op |-> "add_objective", objective |-> objective,
              name |-> name, group |-> group]
        used == IF name = Null THEN DefaultObjectiveName(objectives)
                ELSE name
    IN /\ pc = "idle"
       /\ NumComponents < MaxComponents
       /\ objectives' = Append(objectives, Objective(objective, used, group))
       /\ Return(c, None)
       /\ UNCHANGED <<decision_variables, constraints, result, verbose, solved,
                      solver_name, solver_options, solverVars>>

\* SX.sym(name) is a fresh symbol: the next position
add_decision_variable(name, lower_bound, upper_bound, group) ==
    LET c == [op |-> "add_decision_variable", name |-> name,
              lower_bound |-> lower_bound, upper_bound |-> upper_bound,
              group |-> group]
        temp == Sym(Len(decision_variables) + 1)
    IN /\ pc = "idle"
       /\ IF BoundsOk(upper_bound, lower_bound)
          THEN /\ NumComponents < MaxComponents
               /\ decision_variables' = Append(decision_variables,
                      DecisionVariable(temp, lower_bound, upper_bound, name, group))
               /\ Return(c, Some(temp))
          ELSE /\ UNCHANGED decision_variables
               /\ Raise(c, "ValueError")
       /\ UNCHANGED <<constraints, objectives, result, verbose, solved,
                      solver_name, solver_options, solverVars>>

\* prefix + '.' + key, or the bare key when prefix is None
FullKey(prefix, key) == IF prefix # Null THEN prefix \o "." \o key ELSE key

\* a slip: an entry that exists is kept
MergeOptions_FirstWriteWins(options, prefix, kwargs) ==
    LET written == {FullKey(prefix, key) : key \in DOMAIN kwargs}
    IN [k \in DOMAIN options \cup written |->
           IF k \in DOMAIN options THEN options[k]
           ELSE kwargs[CHOOSE key \in DOMAIN kwargs : FullKey(prefix, key) = k]]

\* for key, value in kwargs.items(): options[prefix + key] = value
MergeOptions(options, prefix, kwargs) ==
    LET written == {FullKey(prefix, key) : key \in DOMAIN kwargs}
    IN [k \in DOMAIN options \cup written |->
           IF k \in written
           THEN kwargs[CHOOSE key \in DOMAIN kwargs : FullKey(prefix, key) = k]
           ELSE options[k]]

add_solver_options(prefix, kwargs) ==
    /\ pc = "idle"
    /\ solver_options' = MergeOptions(solver_options, prefix, kwargs)
    /\ Return([op |-> "add_solver_options", prefix |-> prefix,
               kwargs |-> kwargs], None)
    /\ UNCHANGED <<decision_variables, constraints, objectives, result,
                   verbose, solved, solver_name, solverVars>>

\* a slip: the defaults are written into the mapping that is there
reset_solver_options_IntoOld(delete_all) ==
    /\ pc = "idle"
    /\ solver_options' = ResetSolverOptions(delete_all, solver_name, verbose)
                             @@ solver_options
    /\ Return([op |-> "reset_solver_options", delete_all |-> delete_all],
              None)
    /\ UNCHANGED <<decision_variables, constraints, objectives, result,
                   verbose, solved, solver_name, solverVars>>

reset_solver_options(delete_all) ==
    /\ pc = "idle"
    /\ solver_options' = ResetSolverOptions(delete_all, solver_name, verbose)
    /\ Return([op |-> "reset_solver_options", delete_all |-> delete_all],
              None)
    /\ UNCHANGED <<decision_variables, constraints, objectives, result,
                   verbose, solved, solver_name, solverVars>>

\* the solver_name setter: the name, then reset_solver_options()
set_solver_name(name) ==
    /\ pc = "idle"
    /\ solver_name' = name
    /\ solver_options' = ResetSolverOptions(FALSE, name, verbose)
    /\ Return([op |-> "solver_name", name |-> name], None)
    /\ UNCHANGED <<decision_variables, constraints, objectives, result,
                   verbose, solved, solverVars>>

\* the verbose setter
set_verbose(value) ==
    /\ pc = "idle"
    /\ verbose' = value
    /\ Return([op |-> "verbose", value |-> value], None)
    /\ UNCHANGED <<decision_variables, constraints, objectives, result,
                   solved, solver_name, solver_options, solverVars>>

\* DecisionVariable(...) called by a caller of the package, not through a
\* Problem: the caller gets the object; nothing checks the bounds
DecisionVariable__init__(variable, lower_bound, upper_bound, name, group) ==
    /\ pc = "idle"
    /\ Return([op |-> "DecisionVariable", lower_bound |-> lower_bound,
               upper_bound |-> upper_bound, name |-> name, group |-> group],
              Some(DecisionVariable(variable, lower_bound, upper_bound,
                                    name, group)))
    /\ UNCHANGED <<problemVars, solverVars>>

\* Constraint(...) called by a caller of the package
Constraint__init__(equation, lower_bound, upper_bound, name, group) ==
    /\ pc = "idle"
    /\ Return([op |-> "Constraint", lower_bound |-> lower_bound,
               upper_bound |-> upper_bound, name |-> name, group |-> group],
              Some(Constraint(equation, lower_bound, upper_bound,
                              name, group)))
    /\ UNCHANGED <<problemVars, solverVars>>

----------------------------------------------------------------------------
(* The engine (casadi's nlpsol with IPOPT), a black box.  Each invocation  *)
(* returns one of a menu of results: a primal vector x, a dual vector      *)
(* lam_x, an objective value f, and the success flag of stats().  call is  *)
(* the identity of the returned object: the number of the invocation.      *)

\* base of x and f of a successful invocation; base of lam_x of a failed one
Successes == {<<0, 1>>, <<3, 1>>, <<3, 2>>}
DualBases == {6, 8}

\* a vector with one entry per decision variable, all entries different
Vec(n, base) == [i \in 1..n |-> base + i - 1]

EngineResults(n, k) ==
    { [success |-> TRUE, x |-> Vec(n, s[1]), lam_x |-> Vec(n, 10),
       f |-> s[2], call |-> k] : s \in Successes }
    \cup
    { [success |-> FALSE, x |-> Vec(n, 20), lam_x |-> Vec(n, d), f |-> 0,
       call |-> k] : d \in DualBases }

----------------------------------------------------------------------------
(* utils/solver.py, nlp.py *)

\* the names Solver.__init__ accepts
\* a slip: bonmin is taken for a supported solver
KnownSolvers_WithBonmin == {"ipopt", "bonmin"}

KnownSolvers == {"ipopt"}

\* cd.nlpsol('F', solver_name, {'x': ..., 'f': ..., 'g': ...}, solver_options)
nlpsol(name) ==
    [solver |-> name,
     x |-> Map(decision_variables, LAMBDA d : d.variable),
     f |-> SumExprs(Map(objectives, LAMBDA o : o.variable),
                    Len(decision_variables)),
     g |-> Map(constraints, LAMBDA c : c.variable),
     options |-> solver_options]

\* random() is in [0, 1): a sample is the lower end or a value strictly
\* between the ends
Samples(lo, hi) == {lo} \cup {v \in {lo + 1} : v < hi}

\* the guesses _ipopt_start may synthesize
SynthesizedGuesses ==
    LET n == Len(decision_variables)
        S(i) == Samples(replace_inf(decision_variables[i].lower_bound),
                        replace_inf(decision_variables[i].upper_bound))
        All == UNION {S(i) : i \in 1..n}
    IN {g \in [1..n -> All] : \A i \in 1..n : g[i] \in S(i)}

\* [float(vector[count]) for count, _ in enumerate(decision_variables)]
NextGuess(vector) == [count \in 1..Len(decision_variables) |-> vector[count]]

\* a slip: the next guess is the primal vector after a failure too
GuessAfter_AlwaysPrimal(r) == NextGuess(r.x)

\* the guess the next trial starts from
GuessAfter(r) == IF ~r.success THEN NextGuess(r.lam_x) ELSE NextGuess(r.x)

\* int(np.argmin(values)), counted from 1: the first position of the minimum
ArgMin(values) ==
    CHOOSE i \in 1..Len(values) :
        /\ \A j \in 1..Len(values) : values[i] <= values[j]
        /\ \A j \in 1..(i - 1) : values[j] > values[i]

\* a slip: of several trials with the least value, the last one
BestResultIndex_LastMinimum(successes) ==
    CHOOSE i \in 1..Len(successes) :
        /\ \A j \in 1..Len(successes) : successes[i].f <= successes[j].f
        /\ \A j \in (i + 1)..Len(successes) : successes[j].f > successes[i].f

\* best_result_index over successful_trials
BestResultIndex(successes) == ArgMin(Map(successes, LAMBDA r : r.f))

\* a slip: the upper flag is computed from the lower bound
UpperBoundActive_FromLowerBound(c, value) ==
    AbsDiff(c.lower_bound, value) < ActivationEpsilon

\* the two active-bound flags of _save_optimal_values
UpperBoundActive(c, value) ==
    AbsDiff(c.upper_bound, value) < ActivationEpsilon
LowerBoundActive(c, value) ==
    AbsDiff(c.lower_bound, value) < ActivationEpsilon

\* a slip: the expressions are evaluated at the point of the last trial
PrimalOf_OfLastTrial(r) ==
    [i \in 1..Len(decision_variables) |-> engine_result[1].x[i]]

\* [solver_result['x'][_] for _ in range(len(decision_variables))]
PrimalOf(r) == [i \in 1..Len(decision_variables) |-> r.x[i]]

ConstraintResult(c, r) ==
    LET temp_result == Eval(c.variable, PrimalOf(r))
    IN [to_result_component(c) EXCEPT
            !.optimal_value = Some(temp_result),
            !.upper_bound_active = UpperBoundActive(c, temp_result),
            !.lower_bound_active = LowerBoundActive(c, temp_result)]

\* a slip: the flags of a decision variable are computed like a constraint's
DecisionVariableResult_WithFlags(d, count, r) ==
    [to_result_component(d) EXCEPT
        !.optimal_value = Some(r.x[count]),
        !.upper_bound_active = UpperBoundActive(d, r.x[count]),
        !.lower_bound_active = LowerBoundActive(d, r.x[count])]

DecisionVariableResult(d, count, r) ==
    [to_result_component(d) EXCEPT !.optimal_value = Some(r.x[count])]

ObjectiveResult(o, r) ==
    [to_result_component(o) EXCEPT
        !.optimal_value = Some(Eval(o.variable, PrimalOf(r)))]

\* the OptimizationResult _save_optimal_values builds; id is its identity
OptimizationResult(id, r) ==
    [id |-> id,
     constraints |-> Map(constraints, LAMBDA c : ConstraintResult(c, r)),
     decision_variables |->
        [count \in 1..Len(decision_variables) |->
            DecisionVariableResult(decision_variables[count], count, r)],
     objectives |-> Map(objectives, LAMBDA o : ObjectiveResult(o, r))]

\* NonLinearProgramming.solve up to the first trial: sets the solver name,
\* constructs the Solver, and runs _ipopt_start up to its loop
solve(name, guess, n_trials) ==
    LET c == [op |-> "solve", initial_guess |-> guess, trials |-> n_trials]
        used == IF name # Null THEN name ELSE solver_name
    IN /\ pc = "idle"
       /\ solver_name' = used
       /\ IF used \notin KnownSolvers
          THEN /\ Raise(c, "NotImplementedError")
               /\ UNCHANGED <<decision_variables, constraints, objectives,
                              result, verbose, solved, solver_options,
                              solverVars>>
          ELSE /\ solves < MaxSolves
               /\ solver' = Some([name |-> used,
                                  problem |-> "OptimizationProblem",
                                  solver_instance |-> Some(nlpsol(used)),
                                  solver_result |-> None])
               /\ \E g \in (IF guess = None THEN SynthesizedGuesses
                             ELSE {guess[1]}) :
                      initial_guess' = Some(g)
               /\ solved' = FALSE
               /\ successful_trials' = <<>>
               /\ failed_trials' = <<>>
               /\ engine_log' = <<>>
               /\ engine_result' = None
               /\ trials' = n_trials
               /\ trial' = 0
               /\ pc' = "loop"
               /\ call' = c
               /\ raised' = Null
               /\ returned' = None
               /\ solves' = solves + 1
               /\ UNCHANGED <<decision_variables, constraints, objectives,
                              result, verbose, solver_options,
                              results_created>>

\* Solver(name, problem) called by a caller of the package: the name is
\* checked, then the class of problem; problem is the Problem of the model
\* or None
Solver__init__(name, problem) ==
    LET c == [op |-> "Solver", name |-> name, problem |-> problem]
    IN /\ pc = "idle"
       /\ IF name \notin KnownSolvers
          THEN /\ Raise(c, "NotImplementedError")
               /\ UNCHANGED solver
          ELSE IF problem # "OptimizationProblem"
          THEN /\ Raise(c, "NotImplementedError")
               /\ UNCHANGED solver
          ELSE /\ solver' = Some([name |-> name, problem |-> problem,
                                  solver_instance |-> None,
                                  solver_result |-> None])
               /\ Return(c, None)
       /\ UNCHANGED <<problemVars, pc, trials, trial, initial_guess,
                      engine_result, successful_trials, failed_trials,
                      engine_log>>

\* the problem setter of the caller's Solver
set_problem(value) ==
    /\ pc = "idle"
    /\ solver # None
    /\ solver' = Some([solver[1] EXCEPT !.problem = value])
    /\ Return([op |-> "Solver.problem", value |-> value], None)
    /\ UNCHANGED <<problemVars, pc, trials, trial, initial_guess,
                   engine_result, successful_trials, failed_trials,
                   engine_log>>

\* Solver.start called by a caller of the package on its Solver:
\* _ipopt_start up to its loop, if the Solver's name is 'ipopt'
start(n_trials, guess) ==
    LET c == [op |-> "start", initial_guess |-> guess, trials |-> n_trials]
    IN /\ pc = "idle"
       /\ solver # None
       /\ IF solver[1].name # "ipopt"
          THEN /\ Return(c, None)
               /\ UNCHANGED <<problemVars, solverVars>>
          ELSE IF solver[1].problem = Null
          THEN /\ Raise(c, "ValueError")
               /\ UNCHANGED <<problemVars, solverVars>>
          ELSE /\ solves < MaxSolves
               /\ solver' = Some([solver[1] EXCEPT
                      !.solver_instance = Some(nlpsol(solver_name))])
               /\ \E g \in (IF guess = None THEN SynthesizedGuesses
                             ELSE {guess[1]}) :
                      initial_guess' = Some(g)
               /\ solved' = FALSE
               /\ successful_trials' = <<>>
               /\ failed_trials' = <<>>
               /\ engine_log' = <<>>
               /\ engine_result' = None
               /\ trials' = n_trials
               /\ trial' = 0
               /\ pc' = "loop"
               /\ call' = c
               /\ raised' = Null
               /\ returned' = None
               /\ solves' = solves + 1
               /\ UNCHANGED <<decision_variables, constraints, objectives,
                              result, verbose, solver_name, solver_options,
                              results_created>>

\* a slip: the loop ends at the first successful trial
LoopContinues_UntilSuccess(t, n, successes) == t < n /\ successes = <<>>

\* for trial in range(trials): the loop goes on while the range lasts,
\* whatever the trials so far gave
LoopContinues(t, n, successes) == t < n

\* a slip: the last trial decides
SolvedAfterLoop_LastTrialDecides(successes) ==
    engine_result # None /\ engine_result[1].success

\* if not successful_trials: solved = False, else: solved = True
SolvedAfterLoop(successes) == successes # <<>>

\* one pass of the loop of _ipopt_start: one invocation of the engine
Trial ==
    /\ pc = "loop"
    /\ LoopContinues(trial, trials, successful_trials)
    /\ \E r \in EngineResults(Len(decision_variables), trial + 1) :
          /\ engine_log' = Append(engine_log,
                 [x0 |-> initial_guess[1],
                  lbx |-> lower_bounds_decision_variables,
                  ubx |-> upper_bounds_decision_variables,
                  lbg |-> lower_bounds_constraints,
                  ubg |-> upper_bounds_constraints,
                  ret |-> r])
          /\ engine_result' = Some(r)
          /\ IF ~r.success
             THEN /\ failed_trials' = Append(failed_trials, r)
                  /\ UNCHANGED successful_trials
             ELSE /\ successful_trials' = Append(successful_trials, r)
                  /\ UNCHANGED failed_trials
          /\ initial_guess' = Some(GuessAfter(r))
    /\ trial' = trial + 1
    /\ UNCHANGED <<problemVars, pc, solver, trials, callerVars>>

\* _ipopt_start after its loop: the choice among the successful trials
Select ==
    /\ pc = "loop"
    /\ ~LoopContinues(trial, trials, successful_trials)
    /\ IF ~SolvedAfterLoop(successful_trials)
       THEN /\ solved' = FALSE
            /\ UNCHANGED solver
       ELSE /\ solver' = Some([solver[1] EXCEPT !.solver_result =
                 Some(successful_trials[BestResultIndex(successful_trials)])])
            /\ solved' = TRUE
    /\ pc' = "save"
    /\ UNCHANGED <<decision_variables, constraints, objectives, result,
                   verbose, solver_name, solver_options, trials, trial,
                   initial_guess, engine_result, successful_trials,
                   failed_trials, engine_log, callerVars>>

\* _save_optimal_values; then start and solve return.  The locals of
\* _ipopt_start and the engine's record of the call are gone; the Solver
\* keeps its fields until the next solve call constructs another.
Save ==
    /\ pc = "save"
    /\ IF solved
       THEN /\ result' = Some(OptimizationResult(results_created + 1,
                                                 solver[1].solver_result[1]))
            /\ results_created' = results_created + 1
       ELSE UNCHANGED <<result, results_created>>
    /\ returned' = IF call.op = "solve" THEN result' ELSE None
    /\ raised' = Null
    /\ pc' = "idle"
    /\ trials' = 0
    /\ trial' = 0
    /\ initial_guess' = None
    /\ engine_result' = None
    /\ successful_trials' = <<>>
    /\ failed_trials' = <<>>
    /\ engine_log' = <<>>
    /\ UNCHANGED <<decision_variables, constraints, objectives, verbose,
                   solved, solver_name, solver_options, solver, call, solves>>

----------------------------------------------------------------------------
(* utils/result.py: the views of an OptimizationResult.  What a view       *)
(* returns carries its Python type: a float is not a bool.                 *)

\* obj.optimal_value as the Python value it is
OptimalValueOf(obj) ==
    IF obj.optimal_value = None THEN PyNone
    ELSE PyFloat(obj.optimal_value[1])

\* a slip: the filter is left out
InGroup_Unfiltered(category, group) == category

\* filter(lambda obj: obj.group == group, category), or the whole category
\* when group is None
InGroup(category, group) ==
    IF group = Null THEN category
    ELSE SelectSeq(category, LAMBDA obj : obj.group = group)

\* a slip: of two components with one name the earlier one's value stays
OutDict_FirstWriteStays(objs, out_list) ==
    [n \in {objs[i].name : i \in 1..Len(objs)} |->
        LET first == CHOOSE i \in 1..Len(objs) :
                         /\ objs[i].name = n
                         /\ \A j \in 1..(i - 1) : objs[j].name # n
        IN out_list[first]]

\* out_dict[obj.name] = ... for every obj in order: of two components with
\* one name the later one's value stays
OutDict(objs, out_list) ==
    [n \in {objs[i].name : i \in 1..Len(objs)} |->
        LET last == CHOOSE i \in 1..Len(objs) :
                        /\ objs[i].name = n
                        /\ \A j \in (i + 1)..Len(objs) : objs[j].name # n
        IN out_list[last]]

extract_optimal_values(as_dict, group, category) ==
    LET objs == InGroup(category, group)
        out_list == Map(objs, OptimalValueOf)
    IN IF as_dict THEN OutDict(objs, out_list) ELSE out_list

\* the body of _extract_active_upper_bound reads obj.optimal_value
extract_active_upper_bound(as_dict, group, category) ==
    LET objs == InGroup(category, group)
        out_list == Map(objs, OptimalValueOf)
    IN IF as_dict THEN OutDict(objs, out_list) ELSE out_list

\* the body of _extract_active_lower_bound reads obj.optimal_value
extract_active_lower_bound(as_dict, group, category) ==
    LET objs == InGroup(category, group)
        out_list == Map(objs, OptimalValueOf)
    IN IF as_dict THEN OutDict(objs, out_list) ELSE out_list

\* a view called on the Problem's result: the caller gets its output
ViewCall(op, as_dict, group, out) ==
    /\ pc = "idle"
    /\ result # None
    /\ Return([op |-> op, as_dict |-> as_dict, group |-> group], Some(out))
    /\ UNCHANGED <<problemVars, solverVars>>

optimal_decision_variables(as_dict, group) ==
    ViewCall("optimal_decision_variables", as_dict, group,
             extract_optimal_values(as_dict, group,
                                    result[1].decision_variables))

optimal_constraint_values(as_dict, group) ==
    ViewCall("optimal_constraint_values", as_dict, group,
             extract_optimal_values(as_dict, group, result[1].constraints))

optimal_objective_values(as_dict, group) ==
    ViewCall("optimal_objective_values", as_dict, group,
             extract_optimal_values(as_dict, group, result[1].objectives))

\* Python's sum over a list of floats: the int 0 for the empty list
PySum(out_list) ==
    IF out_list = <<>> THEN PyInt(0)
    ELSE PyFloat(SumSeq(Map(out_list, LAMBDA x : x.v)))

\* a slip: the group argument is not passed on
optimal_objective_sum_OfAllGroups(group) ==
    /\ pc = "idle"
    /\ result # None
    /\ Return([op |-> "optimal_objective_sum", group |-> group],
              Some(PySum(extract_optimal_values(FALSE, Null,
                                                result[1].objectives))))
    /\ UNCHANGED <<problemVars, solverVars>>

optimal_objective_sum(group) ==
    /\ pc = "idle"
    /\ result # None
    /\ Return([op |-> "optimal_objective_sum", group |-> group],
              Some(PySum(extract_optimal_values(FALSE, group,
                                                result[1].objectives))))
    /\ UNCHANGED <<problemVars, solverVars>>

active_lower_bounds_constraints(as_dict, group) ==
    ViewCall("active_lower_bounds_constraints", as_dict, group,
             extract_active_lower_bound(as_dict, group,
                                        result[1].constraints))

active_upper_bounds_constraints(as_dict, group) ==
    ViewCall("active_upper_bounds_constraints", as_dict, group,
             extract_active_upper_bound(as_dict, group,
                                        result[1].constraints))

active_lower_bounds_decision_variables(as_dict, group) ==
    ViewCall("active_lower_bounds_decision_variables", as_dict, group,
             extract_active_lower_bound(as_dict, group,
                                        result[1].decision_variables))

active_upper_bounds_decision_variables(as_dict, group) ==
    ViewCall("active_upper_bounds_decision_variables", as_dict, group,
             extract_active_upper_bound(as_dict, group,
                                        result[1].decision_variables))

----------------------------------------------------------------------------
(* The callers' inputs *)

\* the expressions a caller can write with the handles it holds: a symbol,
\* or the sum of all symbols
Expressions ==
    LET n == Len(decision_variables)
    IN {Sym(i) : i \in 1..n} \cup {SumOfSyms(n) : m \in {n} \ {0}}

\* the initial_guess argument of solve: absent, or one value per variable
Guesses == {None, Some(Vec(Len(decision_variables), 30))}

SolverNames == {Null, "ipopt", "bonmin"}

AddDecisionVariable(inputs, groups) ==
    \E i \in inputs, group \in groups :
        add_decision_variable(i[1], i[2], i[3], group)

AddConstraint(bounds, names, groups) ==
    \E e \in Expressions, b \in bounds, name \in names, group \in groups :
        add_constraint(e, b[1], b[2], name, group)

AddObjective(names, groups) ==
    \E e \in Expressions, name \in names, group \in groups :
        add_objective(e, name, group)

SolveCall(names, guesses, counts) ==
    \E name \in names, guess \in guesses, n \in counts :
        solve(name, guess, n)

----------------------------------------------------------------------------
(* Spec: a NonLinearProgramming problem from its construction, a few       *)
(* components, solve calls of up to MaxTrials trials                       *)

Init ==
    /\ ProblemInit("ipopt", FALSE)
    /\ NoSolver
    /\ NoCall

Next ==
    \/ AddDecisionVariable({<<"x", NegInf, Inf>>}, {Null})
    \/ AddConstraint({<<0, 1>>}, {Null}, {Null})
    \/ AddObjective({Null}, {Null})
    \/ SolveCall(SolverNames, Guesses, 0..MaxTrials)
    \/ Trial
    \/ Select
    \/ Save

Spec == Init /\ [][Next]_vars

----------------------------------------------------------------------------
(* SpecProblem: the registry under every kind of bounds and names, solve   *)
(* calls of one trial                                                      *)

\* lower_bound, upper_bound of an add call: equal, finite, infinite, and an
\* upper bound below the lower
BoundPairs == {<<0, 0>>, <<0, 1>>, <<NegInf, Inf>>, <<1, 0>>}

\* name, lower_bound, upper_bound of add_decision_variable
VariableInputs == {<<"x", b[1], b[2]>> : b \in BoundPairs}

NextProblem ==
    \/ AddDecisionVariable(VariableInputs, {Null})
    \/ AddConstraint(BoundPairs, {Null, "c"}, {Null})
    \/ AddObjective({Null, "o"}, {Null})
    \/ SolveCall({Null}, {Some(Vec(Len(decision_variables), 30))}, {1})
    \/ Trial
    \/ Select
    \/ Save

SpecProblem == Init /\ [][NextProblem]_vars

----------------------------------------------------------------------------
(* SpecComponents: callers that construct components themselves, next to   *)
(* a Problem that registers its own                                        *)

ConstructDecisionVariable(bounds, names) ==
    \E b \in bounds, name \in names :
        DecisionVariable__init__(Sym(1), b[1], b[2], name, Null)

ConstructConstraint(bounds, names) ==
    \E b \in bounds, name \in names :
        Constraint__init__(Sym(1), b[1], b[2], name, Null)

NextComponents ==
    \/ ConstructDecisionVariable(BoundPairs, {Null, "x"})
    \/ ConstructConstraint(BoundPairs, {Null, "c"})
    \/ AddDecisionVariable(VariableInputs, {Null})
    \/ AddConstraint(BoundPairs, {Null, "c"}, {Null})
    \/ AddObjective({Null, "o"}, {Null})

SpecComponents == Init /\ [][NextComponents]_vars

----------------------------------------------------------------------------
(* SpecResult: Problems whose constraints have bounds at every distance    *)
(* from the values the engine returns, solved in one trial, and the views  *)
(* of their Results                                                        *)

\* lower_bound, upper_bound of a constraint: around 0 within the tolerance,
\* at exactly the tolerance from 0 and from 3, and equal bounds
ResultBounds == {<<-1, 1>>, <<-2, 5>>, <<0, 0>>}

\* one bound infinite and the other near 3
HalfBounds == {<<NegInf, 4>>, <<3, Inf>>}

ActiveBoundViews(groups) ==
    \E as_dict \in BOOLEAN, group \in groups :
        \/ active_lower_bounds_constraints(as_dict, group)
        \/ active_upper_bounds_constraints(as_dict, group)
        \/ active_lower_bounds_decision_variables(as_dict, group)
        \/ active_upper_bounds_decision_variables(as_dict, group)

NextResult ==
    \/ AddDecisionVariable({<<"x", NegInf, Inf>>}, {Null})
    \/ AddDecisionVariable({<<"y", NegInf, Inf>>}, {"g"})
    \/ AddConstraint(ResultBounds, {Null}, {Null})
    \/ AddConstraint(HalfBounds, {Null}, {"g"})
    \/ AddObjective({Null}, {Null})
    \/ SolveCall({Null}, {Some(Vec(Len(decision_variables), 30))}, {1})
    \/ Trial
    \/ Select
    \/ Save
    \/ ActiveBoundViews({Null, "g"})

SpecResult == Init /\ [][NextResult]_vars

----------------------------------------------------------------------------
(* SpecViews: Problems whose components are in a group or in none, solved  *)
(* in one trial, and the optimal-value views of their Results              *)

OptimalValueViews(groups) ==
    \E as_dict \in BOOLEAN, group \in groups :
        \/ optimal_decision_variables(as_dict, group)
        \/ optimal_constraint_values(as_dict, group)
        \/ optimal_objective_values(as_dict, group)

ResultSums(groups) == \E group \in groups : optimal_objective_sum(group)

NextViews ==
    \/ AddDecisionVariable({<<"x", NegInf, Inf>>}, {Null})
    \/ AddDecisionVariable({<<"y", NegInf, Inf>>}, {"g"})
    \/ AddConstraint({<<0, 1>>}, {Null}, {Null, "g"})
    \/ AddObjective({Null}, {Null, "g"})
    \/ SolveCall({Null}, {Some(Vec(Len(decision_variables), 30))}, {1})
    \/ Trial
    \/ Select
    \/ Save
    \/ OptimalValueViews({Null, "g"})
    \/ ResultSums({Null, "g"})

SpecViews == Init /\ [][NextViews]_vars

----------------------------------------------------------------------------
(* SpecOptions: the solver options of a Problem under its setters, its     *)
(* option methods and solve calls that name a solver (of no trial: what    *)
(* they do to the options is done before the loop)                         *)

\* the keyword arguments of add_solver_options
OptionSets ==
    {[print_level |-> PyInt(5)],
     [print_level |-> PyInt(0), linear_solver |-> PyStr("ma27")]}

AddSolverOptions(prefixes, kwargs_menu) ==
    \E prefix \in prefixes, kwargs \in kwargs_menu :
        add_solver_options(prefix, kwargs)

ResetSolverOptionsCall == \E delete_all \in BOOLEAN :
    reset_solver_options(delete_all)

SetSolverName(names) == \E name \in names : set_solver_name(name)

SetVerbose == \E value \in BOOLEAN : set_verbose(value)

NextOptions ==
    \/ AddSolverOptions({Null, "ipopt"}, OptionSets)
    \/ ResetSolverOptionsCall
    \/ SetSolverName({"ipopt", "bonmin"})
    \/ SetVerbose
    \/ SolveCall(SolverNames, {Some(<<>>)}, {0})
    \/ Select
    \/ Save

SpecOptions == Init /\ [][NextOptions]_vars

----------------------------------------------------------------------------
(* SpecNames: callers that register constraints and objectives over        *)
(* constant expressions, which need no decision variable, next to those    *)
(* over symbols                                                            *)

\* an expression without symbols, cd.SX(0)
ConstantExpressions == {<<>>}

AddConstantConstraint(bounds, names) ==
    \E e \in ConstantExpressions, b \in bounds, name \in names :
        add_constraint(e, b[1], b[2], name, Null)

AddConstantObjective(names) ==
    \E e \in ConstantExpressions, name \in names :
        add_objective(e, name, Null)

NextNames ==
    \/ AddDecisionVariable(VariableInputs, {Null})
    \/ AddConstantConstraint(BoundPairs, {Null, "c"})
    \/ AddConstantObjective({Null, "o"})
    \/ AddConstraint({<<0, 1>>}, {Null, "c"}, {Null})
    \/ AddObjective({Null, "o"}, {Null})

SpecNames == Init /\ [][NextNames]_vars

----------------------------------------------------------------------------
(* SpecDuplicates: callers that give several components of a category one  *)
(* name, in one group or in two, and read the optimal-value views          *)

NextDuplicates ==
    \/ AddDecisionVariable({<<"x", NegInf, Inf>>}, {Null, "g"})
    \/ AddConstraint({<<0, 1>>}, {"c"}, {Null, "g"})
    \/ AddObjective({"o"}, {Null, "g"})
    \/ SolveCall({Null}, {Some(Vec(Len(decision_variables), 30))}, {1})
    \/ Trial
    \/ Select
    \/ Save
    \/ OptimalValueViews({Null, "g"})

SpecDuplicates == Init /\ [][NextDuplicates]_vars

----------------------------------------------------------------------------
(* SpecSolver: callers that construct a Solver themselves, attach and      *)
(* detach its Problem and start it, next to solve calls                    *)

\* the problem argument of Solver(...) and of the problem setter
Problems == {Null, "OptimizationProblem"}

NewSolver(names, problems) ==
    \E name \in names, problem \in problems : Solver__init__(name, problem)

SetProblem(problems) == \E value \in problems : set_problem(value)

StartCall(guesses, counts) ==
    \E guess \in guesses, n \in counts : start(n, guess)

NextSolver ==
    \/ AddDecisionVariable({<<"x", NegInf, Inf>>}, {Null})
    \/ NewSolver({"ipopt", "bonmin"}, Problems)
    \/ SetProblem(Problems)
    \/ StartCall(Guesses, {1})
    \/ SolveCall(SolverNames, Guesses, {1})
    \/ Trial
    \/ Select
    \/ Save

SpecSolver == Init /\ [][NextSolver]_vars

----------------------------------------------------------------------------
(* The claims about the trial loop, checked under Spec *)

\* the invocations of the running call, and those the engine reported solved
Invocations == 1..Len(engine_log)
Succeeded == {k \in Invocations : engine_log[k].ret.success}

\* C1, as claimed: a solve call whose trials (at least one) all failed
\* leaves the Problem with solved = false and result = None, and returns
\* None, whatever the Problem held before the call.
C1_AllFailedLeavesNoResult ==
    [][(/\ pc = "save"
        /\ pc' = "idle"
        /\ Invocations # {}
        /\ Succeeded = {})
       => (/\ solved' = FALSE
           /\ result' = None
           /\ returned' = None)]_vars

\* C2: the first invocation gets the caller's guess when one is given, and
\* every later invocation gets exactly lam_x of the invocation before it if
\* that one failed, exactly its x if it succeeded.
C2_WarmStart ==
    pc \in {"loop", "save"} =>
        /\ (Invocations # {} /\ call.initial_guess # None)
              => engine_log[1].x0 = call.initial_guess[1]
        /\ \A k \in Invocations :
              LET r == engine_log[k].ret
                  next == IF k = Len(engine_log) THEN initial_guess[1]
                          ELSE engine_log[k + 1].x0
              IN /\ Len(next) = Len(decision_variables)
                 /\ next = IF r.success THEN r.x ELSE r.lam_x

\* a call of three trials on two variables, with a caller's guess: the first
\* trial failed, the second succeeded, the third ran
C2_Witness ==
    /\ pc = "save"
    /\ Len(engine_log) = 3
    /\ Len(decision_variables) = 2
    /\ call.initial_guess # None
    /\ ~engine_log[1].ret.success
    /\ engine_log[2].ret.success
    /\ engine_log[2].x0 = engine_log[1].ret.lam_x
    /\ engine_log[3].x0 = engine_log[2].ret.x

\* C3: when a trial succeeded, the trial chosen is a successful one of this
\* call, none of the successful ones has a lower objective value, and none
\* with the same value came earlier; a failed trial is never chosen.
C3_BestOfSuccessful ==
    (pc = "save" /\ Succeeded # {}) =>
        /\ solver[1].solver_result # None
        /\ LET chosen == solver[1].solver_result[1]
           IN /\ chosen.call \in Succeeded
              /\ chosen = engine_log[chosen.call].ret
              /\ \A k \in Succeeded :
                    LET r == engine_log[k].ret
                    IN /\ chosen.f <= r.f
                       /\ r.f = chosen.f => chosen.call <= k

\* three trials: a success, then a success with the same objective value at
\* another point, and a failure whose objective value is lower than both;
\* the first is chosen
C3_Witness ==
    /\ pc = "save"
    /\ Len(engine_log) = 3
    /\ engine_log[1].ret.success
    /\ engine_log[2].ret.success
    /\ engine_log[1].ret.f = engine_log[2].ret.f
    /\ engine_log[1].ret.x # engine_log[2].ret.x
    /\ ~engine_log[3].ret.success
    /\ engine_log[3].ret.f < engine_log[1].ret.f
    /\ solver[1].solver_result[1] = engine_log[1].ret

\* C4: a start call of n trials invokes the engine n times, one invocation
\* after the other, whatever the trials give: while the loop runs the
\* invocations so far are the passes made, and after it they are n.
C4_ExactlyNInvocations ==
    /\ pc = "loop" => (Len(engine_log) = trial /\ trial <= trials)
    /\ pc = "save" => (Len(engine_log) = trials /\ trials = call.trials)
    /\ pc \in {"loop", "save"} =>
          /\ \A k \in Invocations : engine_log[k].ret.call = k
          /\ Len(successful_trials) + Len(failed_trials) = Len(engine_log)

\* three trials asked for and three made: the first succeeded, the second
\* failed
C4_Witness ==
    /\ pc = "save"
    /\ call.trials = 3
    /\ Len(engine_log) = 3
    /\ engine_log[1].ret.success
    /\ ~engine_log[2].ret.success

\* C5: solved is false from the reset to the end of the loop; after the
\* loop it is true exactly if a trial of the call succeeded; and the call
\* ends with that flag and, if it is true, with a Result created by this
\* call as the Problem's result.
C5_SolvedIffSomeSuccess ==
    /\ [](/\ pc = "loop" => ~solved
          /\ pc = "save" => (solved <=> Succeeded # {}))
    /\ [][(pc = "save" /\ pc' = "idle") =>
            /\ solved' = solved
            /\ solved' =>
                  /\ result' # None
                  /\ result' # result
                  /\ result'[1].id = results_created + 1
                  /\ results_created' = results_created + 1]_vars

\* the second solve call of a Problem that holds a Result: its first trial
\* succeeded, its last two failed, and solved is true
C5_Witness ==
    /\ pc = "save"
    /\ solves = 2
    /\ result # None
    /\ Len(engine_log) = 3
    /\ engine_log[1].ret.success
    /\ ~engine_log[2].ret.success
    /\ ~engine_log[3].ret.success
    /\ solved

----------------------------------------------------------------------------
(* The claims about the registry, checked under SpecProblem *)

\* a step that is a call of one of the two add-operations that take bounds
BoundedAddStep ==
    /\ pc = "idle"
    /\ pc' = "idle"
    /\ call'.op \in {"add_constraint", "add_decision_variable"}

\* the sequence s grew by exactly one element at its end
GrewByOne(s, t) == Len(t) = Len(s) + 1 /\ SubSeq(t, 1, Len(s)) = s

\* C6: add_constraint and add_decision_variable with upper_bound below
\* lower_bound raise a ValueError and leave the three component sequences,
\* the options, solved and result as they were, so the next default
\* constraint name keeps its number; with upper_bound equal to or above
\* lower_bound (infinite bounds included) they return and append exactly one
\* component, which carries the bounds given, to their own sequence.
C6_BoundOrderChecked ==
    [][BoundedAddStep =>
         IF call'.upper_bound < call'.lower_bound
         THEN /\ raised' = "ValueError"
              /\ UNCHANGED <<decision_variables, constraints, objectives,
                             solver_options, solved, result>>
         ELSE /\ raised' = Null
              /\ UNCHANGED <<objectives, solver_options, solved, result>>
              /\ IF call'.op = "add_constraint"
                 THEN /\ GrewByOne(constraints, constraints')
                      /\ UNCHANGED decision_variables
                      /\ LET new == constraints'[Len(constraints')]
                         IN /\ new.lower_bound = call'.lower_bound
                            /\ new.upper_bound = call'.upper_bound
                            /\ call'.name = Null =>
                                  new.name = "Constraint_"
                                      \o ToString(Len(constraints) + 1)
                 ELSE /\ GrewByOne(decision_variables, decision_variables')
                      /\ UNCHANGED constraints
                      /\ LET new == decision_variables'[Len(decision_variables')]
                         IN /\ new.lower_bound = call'.lower_bound
                            /\ new.upper_bound = call'.upper_bound]_vars

\* a solved Problem holding a Result, a variable with infinite bounds and a
\* constraint with equal bounds, on which add_constraint with upper_bound
\* below lower_bound has just raised
C6_Witness ==
    /\ call.op = "add_constraint"
    /\ call.upper_bound < call.lower_bound
    /\ raised = "ValueError"
    /\ solved
    /\ result # None
    /\ Len(constraints) = 1
    /\ constraints[1].lower_bound = constraints[1].upper_bound
    /\ Len(decision_variables) = 1
    /\ decision_variables[1].lower_bound = NegInf
    /\ decision_variables[1].upper_bound = Inf

\* C8: the derived vectors are as long as the sequence they are derived from
\* and entry i is the bound or name of the i-th registered component; an
\* add call that returns puts its bounds at the end of the vectors and
\* leaves the entries before it alone.
C8_DerivedVectorsAligned ==
    /\ [](/\ Len(lower_bounds_constraints) = Len(constraints)
          /\ Len(upper_bounds_constraints) = Len(constraints)
          /\ Len(names_constraints) = Len(constraints)
          /\ \A i \in 1..Len(constraints) :
                /\ lower_bounds_constraints[i] = constraints[i].lower_bound
                /\ upper_bounds_constraints[i] = constraints[i].upper_bound
                /\ names_constraints[i] = constraints[i].name
          /\ Len(lower_bounds_decision_variables) = Len(decision_variables)
          /\ Len(upper_bounds_decision_variables) = Len(decision_variables)
          /\ \A i \in 1..Len(decision_variables) :
                /\ lower_bounds_decision_variables[i]
                      = decision_variables[i].lower_bound
                /\ upper_bounds_decision_variables[i]
                      = decision_variables[i].upper_bound)
    /\ [][(BoundedAddStep /\ raised' = Null) =>
            IF call'.op = "add_constraint"
            THEN /\ lower_bounds_constraints'
                       = Append(lower_bounds_constraints, call'.lower_bound)
                 /\ upper_bounds_constraints'
                       = Append(upper_bounds_constraints, call'.upper_bound)
                 /\ GrewByOne(names_constraints, names_constraints')
            ELSE /\ lower_bounds_decision_variables'
                       = Append(lower_bounds_decision_variables,
                                call'.lower_bound)
                 /\ upper_bounds_decision_variables'
                       = Append(upper_bounds_decision_variables,
                                call'.upper_bound)]_vars

\* two decision variables with different bounds, registered in this order,
\* and an add call that has just raised
C8_Witness ==
    /\ raised = "ValueError"
    /\ constraints = <<>>
    /\ names_constraints = <<>>
    /\ Len(decision_variables) = 2
    /\ lower_bounds_decision_variables = <<0, NegInf>>
    /\ upper_bounds_decision_variables = <<1, Inf>>

----------------------------------------------------------------------------
(* The claims about the components, checked under SpecComponents *)

Constructors == {"DecisionVariable", "Constraint"}

\* the components a Problem holds
Registered ==
    {decision_variables[i] : i \in 1..Len(decision_variables)}
        \cup {constraints[i] : i \in 1..Len(constraints)}
        \cup {objectives[i] : i \in 1..Len(objectives)}

----------------------------------------------------------------------------
(* The claims about the Result, checked under SpecResult *)

\* the tolerance 10 ** -5 in grid steps, and the distance of a value from a
\* finite bound
Tolerance == 2
Distance(bound, value) ==
    IF bound > value THEN bound - value ELSE value - bound
Finite(bound) == bound # Inf /\ bound # NegInf

\* C9: in a Result, for every constraint with optimal value v: the flag of
\* a bound is true when the bound is finite and v is less than the
\* tolerance away from it, and false when the bound is infinite or v is
\* the tolerance or more away from it; so both flags are true when v is
\* that near to both bounds, and both are false when v is further from
\* both.  v is the constraint's expression at the chosen trial's x.
C9_ActiveBoundFlags ==
    result # None =>
        \A i \in 1..Len(result[1].constraints) :
            LET c == constraints[i]
                r == result[1].constraints[i]
                v == r.optimal_value[1]
            IN /\ r.optimal_value # None
               /\ r.name = c.name
               /\ r.upper_bound_active
                     <=> (Finite(c.upper_bound)
                            /\ Distance(c.upper_bound, v) < Tolerance)
               /\ r.lower_bound_active
                     <=> (Finite(c.lower_bound)
                            /\ Distance(c.lower_bound, v) < Tolerance)

\* a Result of one constraint whose value is off both
\* bounds by less than the tolerance: both flags are true
C9_Witness ==
    /\ result # None
    /\ Len(result[1].constraints) = 1
    /\ constraints[1].lower_bound = -1
    /\ constraints[1].upper_bound = 1
    /\ result[1].constraints[1].optimal_value = Some(0)
    /\ result[1].constraints[1].upper_bound_active
    /\ result[1].constraints[1].lower_bound_active

ActiveViews ==
    {"active_lower_bounds_constraints", "active_upper_bounds_constraints",
     "active_lower_bounds_decision_variables",
     "active_upper_bounds_decision_variables"}

\* C10, as claimed: an active-bound view returns, for the components it
\* selects, in registration order or keyed by name, the boolean flag
\* lower_bound_active or upper_bound_active stored on each of them.
C10_ActiveViewsReturnFlags ==
    call.op \in ActiveViews =>
        LET category ==
                IF call.op \in {"active_lower_bounds_constraints",
                                "active_upper_bounds_constraints"}
                THEN result[1].constraints
                ELSE result[1].decision_variables
            lower == call.op \in {"active_lower_bounds_constraints",
                                  "active_lower_bounds_decision_variables"}
            objs == InGroup(category, call.group)
            flags == [i \in 1..Len(objs) |->
                        PyBool(IF lower THEN objs[i].lower_bound_active
                               ELSE objs[i].upper_bound_active)]
        IN returned = Some(IF call.as_dict THEN OutDict(objs, flags)
                           ELSE flags)

\* the ResultComponents rs mirror the components cs: as many, and the i-th
\* has the name and the group of the i-th, and an optimal value
Mirrors(rs, cs) ==
    /\ Len(rs) = Len(cs)
    /\ \A i \in 1..Len(cs) :
          /\ rs[i].name = cs[i].name
          /\ rs[i].group = cs[i].group
          /\ rs[i].optimal_value # None

\* C11: a solve call that ends with solved = true leaves a Result whose
\* three sequences mirror the Problem's three sequences one-to-one and in
\* order, with every optimal_value set; so also on the second solve of a
\* Problem, whose Result holds nothing of the first.
C11_ResultMirrorsProblem ==
    [][(pc = "save" /\ pc' = "idle" /\ solved') =>
          /\ result' # None
          /\ Mirrors(result'[1].constraints, constraints')
          /\ Mirrors(result'[1].decision_variables, decision_variables')
          /\ Mirrors(result'[1].objectives, objectives')]_vars

\* the second solve call of a Problem has just returned its Result: one
\* variable and one constraint of the group g
C11_Witness ==
    /\ pc = "idle"
    /\ call.op = "solve"
    /\ solved
    /\ solves = 2
    /\ result # None
    /\ result[1].id = 2
    /\ Len(result[1].decision_variables) = 1
    /\ result[1].decision_variables[1].name = "x"
    /\ Len(result[1].constraints) = 1
    /\ result[1].constraints[1].group = "g"
    /\ result[1].constraints[1].name = "Constraint_1"

\* the sum of the optimal values of the ResultComponents of rs from the
\* i-th on whose group is g, or of all of them when g is None
RECURSIVE SumOfGroup(_, _, _)
SumOfGroup(rs, g, i) ==
    IF i > Len(rs) THEN 0
    ELSE (IF g = Null \/ rs[i].group = g THEN rs[i].optimal_value[1] ELSE 0)
            + SumOfGroup(rs, g, i + 1)

OptimalViews ==
    {"optimal_decision_variables", "optimal_constraint_values",
     "optimal_objective_values"}

\* the category of the Result a view reads
CategoryOf(op) ==
    IF op = "optimal_decision_variables" THEN result[1].decision_variables
    ELSE IF op = "optimal_constraint_values" THEN result[1].constraints
    ELSE result[1].objectives

\* the optimal values of the ResultComponents of rs from the i-th on whose
\* group is g (all of them when g is None), in their order
RECURSIVE ValuesOfGroup(_, _, _)
ValuesOfGroup(rs, g, i) ==
    IF i > Len(rs) THEN <<>>
    ELSE (IF g = Null \/ rs[i].group = g
          THEN <<PyFloat(rs[i].optimal_value[1])>> ELSE <<>>)
            \o ValuesOfGroup(rs, g, i + 1)

\* C13: an optimal-value view called with as_dict = false returns the
\* optimal values of exactly the components whose group is the group
\* asked for, in registration order, with no entry for any other
\* component; with no group asked for, those of all components.
C13_GroupFilterKeepsOrder ==
    (call.op \in OptimalViews /\ ~call.as_dict) =>
        returned = Some(ValuesOfGroup(CategoryOf(call.op), call.group, 1))

\* the decision variables of the group g, of a Result with x in no group
\* and y in g, in this order: one value, that of y
C13_Witness ==
    /\ call.op = "optimal_decision_variables"
    /\ ~call.as_dict
    /\ call.group = "g"
    /\ Len(result[1].decision_variables) = 2
    /\ result[1].decision_variables[1].group = Null
    /\ result[1].decision_variables[2].group = "g"
    /\ result[1].decision_variables[1].optimal_value = Some(3)
    /\ result[1].decision_variables[2].optimal_value = Some(4)
    /\ returned = Some(<<PyFloat(4)>>)

----------------------------------------------------------------------------
(* The claims about the solver options, checked under SpecOptions *)

\* the hard-coded defaults of a solver family under a verbosity flag
DefaultOptions(name, verb) ==
    IF name = "ipopt"
    THEN [k \in {"print_time", "ipopt.suppress_all_output",
                 "ipopt.linear_solver", "ipopt.print_level"} |->
            CASE k = "print_time" -> PyBool(verb)
              [] k = "ipopt.suppress_all_output" ->
                    PyStr(IF verb THEN "no" ELSE "yes")
              [] k = "ipopt.linear_solver" -> PyStr("mumps")
              [] OTHER -> PyInt(4)]
    ELSE [k \in {"print_time"} |-> PyBool(verb)]

\* a step that is a call of reset_solver_options(delete_all=False)
ResetToDefaultsStep ==
    /\ pc = "idle"
    /\ call'.op = "reset_solver_options"
    /\ ~call'.delete_all

\* C14: reset_solver_options(delete_all=False) leaves the mapping that the
\* Problem's solver name and verbosity determine, whatever it held before,
\* and changes neither of the two; called again right after, it leaves the
\* same mapping.
C14_ResetDependsOnNameAndVerbosity ==
    [][ResetToDefaultsStep =>
         /\ solver_options' = DefaultOptions(solver_name, verbose)
         /\ UNCHANGED <<solver_name, verbose>>
         /\ (call.op = "reset_solver_options" /\ ~call.delete_all)
               => solver_options' = solver_options]_vars

\* a reset of a Problem whose name was set to another family and whose
\* verbosity was switched on
C14_Witness ==
    /\ call.op = "reset_solver_options"
    /\ ~call.delete_all
    /\ solver_name = "bonmin"
    /\ verbose
    /\ solver_options = [k \in {"print_time"} |-> PyBool(TRUE)]

\* C15, as claimed: every step that changes the Problem's solver name
\* leaves the options equal to the defaults of the new name under the
\* current verbosity.
C15_NameChangeResetsOptions ==
    [][solver_name' # solver_name =>
         solver_options' = DefaultOptions(solver_name', verbose')]_vars

\* the full key add_solver_options writes for a key under a prefix
Written(prefix, key) ==
    IF prefix = Null THEN key ELSE prefix \o "." \o key

\* C16: add_solver_options(prefix, **options) sets the entry of every
\* supplied key, under its full key, to the supplied value, overwriting an
\* entry that was there, and every other entry keeps its value;
\* reset_solver_options(delete_all=True) leaves the mapping empty.
C16_AddMergesLastWriteWins ==
    /\ [][(pc = "idle" /\ call'.op = "add_solver_options") =>
            LET kwargs == call'.kwargs
                written == {Written(call'.prefix, key) : key \in DOMAIN kwargs}
            IN /\ DOMAIN solver_options' = DOMAIN solver_options \cup written
               /\ \A key \in DOMAIN kwargs :
                     solver_options'[Written(call'.prefix, key)] = kwargs[key]
               /\ \A k \in DOMAIN solver_options \ written :
                     solver_options'[k] = solver_options[k]]_vars
    /\ [][(/\ pc = "idle"
           /\ call'.op = "reset_solver_options"
           /\ call'.delete_all) => DOMAIN solver_options' = {}]_vars

\* print_level written bare as 5, then under the prefix ipopt as 0 over
\* the default 4, together with linear_solver over the default mumps
C16_Witness ==
    /\ call.op = "add_solver_options"
    /\ call.prefix = "ipopt"
    /\ DOMAIN solver_options
          = {"print_time", "ipopt.suppress_all_output", "ipopt.linear_solver",
             "ipopt.print_level", "print_level"}
    /\ solver_options["print_level"] = PyInt(5)
    /\ solver_options["ipopt.print_level"] = PyInt(0)
    /\ solver_options["ipopt.linear_solver"] = PyStr("ma27")
    /\ solver_options["print_time"] = PyBool(FALSE)

----------------------------------------------------------------------------
(* The claims about the Solver's name and Problem, checked under           *)
(* SpecSolver                                                              *)

\* a step that constructs a Solver, or solves, under a name other than ipopt
UnknownNameStep ==
    /\ pc = "idle"
    /\ \/ call'.op = "Solver" /\ call'.name # "ipopt"
       \/ call'.op = "solve" /\ solver_name' # "ipopt"
    /\ call' # call

\* C17: ipopt is the only recognized solver name: constructing a Solver
\* under another name, or solving a Problem whose solver name is another
\* one, fails with the not-supported error (NotImplementedError) without
\* configuring or invoking the engine, and leaves the caller's Solver, the
\* solved flag and the Result as they were; under the name ipopt with a
\* Problem the construction succeeds and a solve enters the trial loop
C17_OnlyIpoptRecognized ==
    /\ [][UnknownNameStep =>
             /\ raised' = "NotImplementedError"
             /\ pc' = "idle"
             /\ UNCHANGED <<solver, engine_log, engine_result, solved,
                            result, results_created, solves>>]_vars
    /\ []((call.op = "Solver" /\ call.name = "ipopt"
                /\ call.problem = "OptimizationProblem")
            => raised = Null /\ solver # None /\ solver[1].name = "ipopt")
    /\ [][(pc = "idle" /\ call'.op = "solve" /\ call' # call
                /\ solver_name' = "ipopt")
            => raised' = Null /\ pc' = "loop"
                 /\ solver'[1].solver_instance # None
                 /\ solver'[1].solver_instance[1].solver = "ipopt"]_vars

\* a solve under the name bonmin was refused after an earlier solve had
\* produced a Result
C17_Witness ==
    /\ call.op = "solve"
    /\ solver_name = "bonmin"
    /\ raised = "NotImplementedError"
    /\ solved
    /\ result # None

\* C18: constructing a Solver fails only for an unrecognized name, the
\* Problem being optional at construction, and starting a Solver that has
\* no Problem attached fails with the value error before the engine is
\* configured
C18_ProblemOptionalAtConstruction ==
    /\ (call.op = "Solver" /\ call.name = "ipopt")
          => /\ raised = Null
             /\ solver # None
             /\ solver[1].problem = call.problem
    /\ (call.op = "start" /\ solver[1].problem = Null)
          => /\ raised = "ValueError"
             /\ pc = "idle"

----------------------------------------------------------------------------
(* The claim about default names, checked under SpecNames *)

\* a call of add_constraint or add_objective that returned
NamedAddStep ==
    /\ pc = "idle"
    /\ pc' = "idle"
    /\ call'.op \in {"add_constraint", "add_objective"}
    /\ raised' = Null

\* the component appended to own carries the name given, or prefix and the
\* 1-based position it takes in own
NamedByPosition(own, grown, prefix, name) ==
    /\ GrewByOne(own, grown)
    /\ grown[Len(grown)].name =
          IF name = Null THEN prefix \o ToString(Len(own) + 1) ELSE name

\* C19: add_constraint (add_objective) without a name stores the component
\* as "Constraint_<k>" ("Objective_<k>"), k being the number of components
\* of that category registered before the call plus one, whatever their
\* names and whatever the other categories hold or earlier calls raised; a
\* name that is given is stored unchanged
C19_DefaultNameIsPositionInCategory ==
    [][NamedAddStep =>
         IF call'.op = "add_constraint"
         THEN NamedByPosition(constraints, constraints', "Constraint_",
                              call'.name)
         ELSE NamedByPosition(objectives, objectives', "Objective_",
                              call'.name)]_vars

\* an unnamed constraint registered second after a named one
C19_Witness ==
    /\ call.op = "add_constraint"
    /\ call.name = Null
    /\ raised = Null
    /\ Len(constraints) = 2
    /\ constraints[1].name = "c"
    /\ constraints[2].name = "Constraint_2"

----------------------------------------------------------------------------
(* The claim about the bounds handed to the engine, checked under Spec *)

\* the declared bounds of the registered components, in registration order
DeclaredBounds ==
    [lbx |-> [j \in 1..Len(decision_variables) |->
                 decision_variables[j].lower_bound],
     ubx |-> [j \in 1..Len(decision_variables) |->
                 decision_variables[j].upper_bound],
     lbg |-> [j \in 1..Len(constraints) |-> constraints[j].lower_bound],
     ubg |-> [j \in 1..Len(constraints) |-> constraints[j].upper_bound]]

\* the bounds one invocation of the engine was handed
HandedBounds(entry) ==
    [lbx |-> entry.lbx, ubx |-> entry.ubx,
     lbg |-> entry.lbg, ubg |-> entry.ubg]

\* C20: in every trial of a start, with a supplied or a synthesized first
\* guess, the engine is handed the declared bounds of the decision
\* variables and of the constraints in registration order, an infinite
\* bound as infinite; only the synthesized first guess lies within the
\* bounds with +-10^10 in place of the infinite ones, a supplied one is
\* handed on as it is; and from the call to its return no registered
\* component changes
C20_EngineGetsDeclaredBounds ==
    /\ [](pc # "idle" =>
            \A i \in 1..Len(engine_log) :
                HandedBounds(engine_log[i]) = DeclaredBounds)
    /\ []((pc = "loop" /\ trial = 0) =>
            IF call.initial_guess = None
            THEN \A j \in 1..Len(decision_variables) :
                    /\ initial_guess[1][j] >=
                          replace_inf(decision_variables[j].lower_bound)
                    /\ initial_guess[1][j] <=
                          replace_inf(decision_variables[j].upper_bound)
            ELSE initial_guess = call.initial_guess)
    /\ [][Len(engine_log') = Len(engine_log) + 1 =>
             engine_log'[Len(engine_log')].x0 = initial_guess[1]]_vars
    /\ [][(pc # "idle" \/ pc' # "idle") =>
             UNCHANGED <<decision_variables, constraints, objectives>>]_vars

\* two trials after a synthesized first guess, over a variable without
\* bounds and a constraint with finite ones
C20_Witness ==
    /\ pc = "loop"
    /\ call.initial_guess = None
    /\ Len(decision_variables) = 1
    /\ Len(engine_log) = 2
    /\ engine_log[1].x0[1] = -1 * ReplaceValue
    /\ engine_log[2].lbx = <<NegInf>>
    /\ engine_log[2].ubx = <<Inf>>
    /\ engine_log[2].lbg = <<0>>
    /\ engine_log[2].ubg = <<1>>

----------------------------------------------------------------------------
(* The claim about the registry's frame, checked under SpecProblem *)

\* a call of one of the three add-operations that returned
SuccessfulAddStep ==
    /\ pc = "idle"
    /\ pc' = "idle"
    /\ call'.op \in {"add_decision_variable", "add_constraint",
                      "add_objective"}
    /\ raised' = Null

\* C21: every add_decision_variable, add_constraint and add_objective call
\* that returns appends exactly one component at the end of its own
\* sequence, leaves the components registered before in all three
\* sequences as and where they were, and leaves solved, result and the
\* option mapping as they were, also after a solve
C21_RegistryAppendOnly ==
    [][SuccessfulAddStep =>
         /\ UNCHANGED <<solved, result, solver_options>>
         /\ CASE call'.op = "add_decision_variable" ->
                   /\ GrewByOne(decision_variables, decision_variables')
                   /\ UNCHANGED <<constraints, objectives>>
              [] call'.op = "add_constraint" ->
                   /\ GrewByOne(constraints, constraints')
                   /\ UNCHANGED <<decision_variables, objectives>>
              [] call'.op = "add_objective" ->
                   /\ GrewByOne(objectives, objectives')
                   /\ UNCHANGED <<decision_variables, constraints>>]_vars

\* a constraint registered on a solved Problem that holds a Result
C21_Witness ==
    /\ call.op = "add_constraint"
    /\ raised = Null
    /\ solved
    /\ result # None
    /\ Len(decision_variables) = 1
    /\ Len(constraints) = 1

----------------------------------------------------------------------------
(* The claim about components that share a name, checked under             *)
(* SpecDuplicates                                                          *)

\* the positions in rs of the components a view of group g selects
SelectedPositions(rs, g) ==
    {i \in 1..Len(rs) : g = Null \/ rs[i].group = g}

\* the last position among ps at which rs holds the name n
LastNamed(rs, ps, n) ==
    CHOOSE i \in ps : /\ rs[i].name = n
                      /\ \A j \in ps : rs[j].name = n => j <= i

\* a call of an add-operation with a name given
NamedCallStep ==
    /\ pc = "idle"
    /\ pc' = "idle"
    /\ call'.op \in {"add_decision_variable", "add_constraint",
                      "add_objective"}
    /\ call'.name # Null
    /\ call'.op = "add_objective" \/ call'.upper_bound >= call'.lower_bound

\* C22: an add-operation accepts a name that a component of its category
\* already carries and stores it; an optimal-value view with as_dict = true
\* returns a mapping with one entry per distinct name among the components
\* it selects, holding the optimal value of the last of them in
\* registration order that carries the name, while with as_dict = false it
\* returns one entry per selected component
C22_SharedNamesCollapseToLast ==
    /\ [][NamedCallStep =>
             /\ raised' = Null
             /\ LET grown == CASE call'.op = "add_decision_variable" ->
                                    decision_variables'
                               [] call'.op = "add_constraint" -> constraints'
                               [] call'.op = "add_objective" -> objectives'
                IN grown[Len(grown)].name = call'.name]_vars
    /\ [](call.op \in OptimalViews =>
            LET rs == CategoryOf(call.op)
                ps == SelectedPositions(rs, call.group)
                out == returned[1]
            IN IF call.as_dict
               THEN /\ DOMAIN out = {rs[i].name : i \in ps}
                    /\ \A n \in DOMAIN out :
                          out[n] = PyFloat(
                              rs[LastNamed(rs, ps, n)].optimal_value[1])
               ELSE Len(out) = Cardinality(ps))

\* two decision variables named x with different optimal values: the
\* mapping has the one entry x with the second one's value
C22_Witness ==
    /\ call.op = "optimal_decision_variables"
    /\ call.as_dict
    /\ call.group = Null
    /\ Len(result[1].decision_variables) = 2
    /\ result[1].decision_variables[1].name = "x"
    /\ result[1].decision_variables[2].name = "x"
    /\ result[1].decision_variables[1].optimal_value = Some(3)
    /\ result[1].decision_variables[2].optimal_value = Some(4)
    /\ returned = Some("x" :> PyFloat(4))

----------------------------------------------------------------------------
(* The claim about where the Result's values come from, checked under Spec *)

\* the value of the linear form e at the point x, from its i-th term on
RECURSIVE ValueAt(_, _, _)
ValueAt(e, x, i) ==
    IF i > Len(e) \/ i > Len(x) THEN 0
    ELSE e[i] * x[i] + ValueAt(e, x, i + 1)

\* the step that ends a start which succeeded
SaveSolvedStep ==
    /\ pc = "save"
    /\ pc' = "idle"
    /\ solved

\* C23: when a start ends solved, the Result it stores is a new one whose
\* values all come from the selected trial, a successful trial of this call
\* with the least objective value, whether or not it ran last: decision
\* variable i has entry i of that trial's primal vector, and every
\* constraint and every objective has its own expression evaluated at that
\* vector
C23_ValuesFromSelectedTrial ==
    [][SaveSolvedStep =>
         LET chosen == solver[1].solver_result[1]
             x == engine_log[chosen.call].ret.x
             new == result'[1]
         IN /\ engine_log[chosen.call].ret.success
            /\ \A k \in 1..Len(engine_log) :
                  engine_log[k].ret.success =>
                      engine_log[chosen.call].ret.f <= engine_log[k].ret.f
            /\ result' # None
            /\ new.id = results_created + 1
            /\ Len(new.decision_variables) = Len(decision_variables)
            /\ \A j \in 1..Len(decision_variables) :
                  new.decision_variables[j].optimal_value = Some(x[j])
            /\ Len(new.constraints) = Len(constraints)
            /\ \A j \in 1..Len(constraints) :
                  new.constraints[j].optimal_value =
                      Some(ValueAt(constraints[j].variable, x, 1))
            /\ Len(new.objectives) = Len(objectives)
            /\ \A j \in 1..Len(objectives) :
                  new.objectives[j].optimal_value =
                      Some(ValueAt(objectives[j].variable, x, 1))]_vars

\* a solve of two trials whose first trial was selected: the variable and
\* the objective over it carry the first trial's point
C23_Witness ==
    /\ pc = "idle"
    /\ call.op = "solve"
    /\ call.trials = 2
    /\ raised = Null
    /\ solved
    /\ solves = 1
    /\ solver[1].solver_result[1].call = 1
    /\ solver[1].solver_result[1].x = <<3>>
    /\ result[1].decision_variables[1].optimal_value = Some(3)
    /\ Len(result[1].objectives) = 1
    /\ result[1].objectives[1].optimal_value = Some(3)

----------------------------------------------------------------------------
(* The claim about the flags of decision variables, checked under          *)
(* SpecProblem                                                             *)

\* C24: in every Result, both active-bound flags of every decision variable
\* are false, also when its optimal value is its declared lower or upper
\* bound, and so are those of every objective; only a constraint can carry
\* a true flag
C24_VariableFlagsStayFalse ==
    result # None =>
        /\ \A i \in 1..Len(result[1].decision_variables) :
              LET r == result[1].decision_variables[i]
              IN /\ r.optimal_value # None
                 /\ ~r.lower_bound_active
                 /\ ~r.upper_bound_active
        /\ \A i \in 1..Len(result[1].objectives) :
              LET r == result[1].objectives[i]
              IN ~r.lower_bound_active /\ ~r.upper_bound_active

\* a variable whose optimal value 0 is both of its bounds, with both flags
\* false, beside a constraint over it with the same bounds and value whose
\* flags are both true
C24_Witness ==
    /\ pc = "idle"
    /\ call.op = "solve"
    /\ result # None
    /\ Len(result[1].decision_variables) = 1
    /\ Len(result[1].constraints) = 1
    /\ decision_variables[1].lower_bound = 0
    /\ decision_variables[1].upper_bound = 0
    /\ result[1].decision_variables[1].optimal_value = Some(0)
    /\ ~result[1].decision_variables[1].lower_bound_active
    /\ ~result[1].decision_variables[1].upper_bound_active
    /\ constraints[1].lower_bound = 0
    /\ constraints[1].upper_bound = 0
    /\ result[1].constraints[1].optimal_value = Some(0)
    /\ result[1].constraints[1].lower_bound_active
    /\ result[1].constraints[1].upper_bound_active

====
